---- MODULE Spec2Model ----
(***************************************************************************)
(* A model of the quiz auto-grading service (src/src/services/             *)
(* autoGrading.ts), of the place QuizTaking.handleSubmitQuiz uses it, of   *)
(* the PDF import (src/src/services/realPdfParser.ts, both versions of     *)
(* parseQuizFromPDF and createQuizFromParsedData) and of                   *)
(* AutoCreateQuizService.createDummy2Quiz (src/unnamed/part_005).          *)
(*                                                                         *)
(* Strings are sequences of one-character strings.  Numbers that the code  *)
(* holds as floating point are held exactly: a score, which the code       *)
(* rounds to two decimals, is held in hundredths of a point (score100),    *)
(* and a percentage is held as a fraction <<numerator, denominator>> with  *)
(* a positive denominator.  A pure function is one call per behaviour      *)
(* (op, args, ret); the calls that write to the store run step by step,    *)
(* one step per await.                                                     *)
(***************************************************************************)
EXTENDS Integers, Sequences, FiniteSets, TLC

VARIABLES
    op,         \* the function that has been called ("none" before any call)
    args,       \* the arguments of that call
    ret,        \* the value the call returned
    quizzesTable,    \* the rows of the table quizzes
    questionsTable,  \* the rows of the table questions, in the order of their ids
    storage,         \* the files of the bucket quiz-images
    create,          \* the call of createQuizFromParsedData in progress
    dummy2,          \* the call of createDummy2Quiz in progress
    taking,          \* the state of the component QuizTaking
    quizAttempts,    \* the updates applied to the row of the attempt in quiz_attempts
    attemptAnswers   \* the batches of rows written to attempt_answers

\* The store and the calls that work on it.
quizTaking == <<taking, quizAttempts, attemptAnswers>>

store == <<quizzesTable, questionsTable, storage, create, dummy2, quizTaking>>

vars == <<op, args, ret, quizzesTable, questionsTable, storage, create, dummy2,
          taking, quizAttempts, attemptAnswers>>

-----------------------------------------------------------------------------
(* Bounds of the model.                                                    *)

MaxTextLen == 3      \* longest input of normalizeText
MaxAnswerLen == 2    \* longest student answer given to the grader
MaxKeywords == 2     \* longest expectedKeywords list
MaxWeight == 2       \* largest keyword weight (the smallest is -1)
MaxMatchLen == 3     \* longest answer and keyword given to containsKeyword

-----------------------------------------------------------------------------
(* Characters.                                                             *)

UpperChars == {"A", "B"}
LowerChars == {"a", "b"}
DigitChars == {"1"}
UnderscoreChar == "_"
SpaceChars == {" ", "\n"}       \* what the regular expression \s matches
PunctChars == {".", "-"}

Chars == UpperChars \cup LowerChars \cup DigitChars \cup {UnderscoreChar}
            \cup SpaceChars \cup PunctChars

\* The regular expression class \w: [A-Za-z0-9_].
IsWordChar(c) == c \in UpperChars \cup LowerChars \cup DigitChars \cup {UnderscoreChar}

\* The regular expression class \s.
IsSpaceChar(c) == c \in SpaceChars

SeqsUpTo(S, n) == UNION {[1..k -> S] : k \in 0..n}

-----------------------------------------------------------------------------
(* String methods of the language, as the code uses them.                  *)

lowerChar(c) == CASE c = "A" -> "a" [] c = "B" -> "b" [] OTHER -> c

\* String.prototype.toLowerCase
toLowerCase(s) == [i \in 1..Len(s) |-> lowerChar(s[i])]

\* .replace(/[^\w\s]/g, ' ')
replaceNonWord(s) ==
    [i \in 1..Len(s) |-> IF IsWordChar(s[i]) \/ IsSpaceChar(s[i]) THEN s[i] ELSE " "]

\* .replace(/\s+/g, ' '): every maximal run of whitespace becomes one space.
RECURSIVE collapseSpaces(_)
collapseSpaces(s) ==
    IF s = <<>> THEN <<>>
    ELSE IF IsSpaceChar(Head(s))
         THEN IF Len(s) > 1 /\ IsSpaceChar(s[2])
              THEN collapseSpaces(Tail(s))
              ELSE <<" ">> \o collapseSpaces(Tail(s))
         ELSE <<Head(s)>> \o collapseSpaces(Tail(s))

RECURSIVE trimStart(_)
trimStart(s) ==
    IF s # <<>> /\ IsSpaceChar(Head(s)) THEN trimStart(Tail(s)) ELSE s

RECURSIVE trimEnd(_)
trimEnd(s) ==
    IF s # <<>> /\ IsSpaceChar(s[Len(s)]) THEN trimEnd(SubSeq(s, 1, Len(s) - 1)) ELSE s

\* String.prototype.trim
trim(s) == trimEnd(trimStart(s))

\* String.prototype.includes: the empty string is included in every string.
includes(s, sub) ==
    \E i \in 1..(Len(s) - Len(sub) + 1) : SubSeq(s, i, i + Len(sub) - 1) = sub

\* String.prototype.split(' '): the pieces between single spaces; the empty
\* string splits into one empty piece.
RECURSIVE splitFrom(_, _)
splitFrom(s, cur) ==
    IF s = <<>> THEN <<cur>>
    ELSE IF Head(s) = " "
         THEN <<cur>> \o splitFrom(Tail(s), <<>>)
         ELSE splitFrom(Tail(s), Append(cur, Head(s)))

split(s) == splitFrom(s, <<>>)

-----------------------------------------------------------------------------
(* autoGrading.ts                                                          *)

\* The steps in another order: trimming before the punctuation is replaced.
normalizeText_TrimFirst(text) ==
    collapseSpaces(replaceNonWord(trim(toLowerCase(text))))

normalizeText(text) == trim(collapseSpaces(replaceNonWord(toLowerCase(text))))

containsKeyword(answer, keyword) ==
    LET normalizedAnswer == normalizeText(answer)
        normalizedKeyword == normalizeText(keyword)
        keywordWords == split(normalizedKeyword)
        answerWords == split(normalizedAnswer)
    IN  IF includes(normalizedAnswer, normalizedKeyword)
        THEN TRUE
        ELSE \A i \in 1..Len(keywordWords) :
                \E j \in 1..Len(answerWords) :
                    \/ includes(answerWords[j], keywordWords[i])
                    \/ includes(keywordWords[i], answerWords[j])


\* A default weight of 0 in place of 1.
keywordWeight_DefaultZero(keywordWeightage, keyword) ==
    IF keyword \in DOMAIN keywordWeightage /\ keywordWeightage[keyword] # 0
    THEN keywordWeightage[keyword]
    ELSE 0

\* keywordWeightage[keyword] || 1: an absent entry is undefined, and undefined
\* and 0 are both falsy.
keywordWeight(keywordWeightage, keyword) ==
    IF keyword \in DOMAIN keywordWeightage /\ keywordWeightage[keyword] # 0
    THEN keywordWeightage[keyword]
    ELSE 1

\* The for loop over expectedKeywords, from its i-th keyword on; acc holds
\* matches, earnedPoints and maxPossiblePoints.
RECURSIVE gradeLoop(_, _, _, _, _)
gradeLoop(studentAnswer, expectedKeywords, keywordWeightage, i, acc) ==
    IF i > Len(expectedKeywords) THEN acc
    ELSE LET keyword == expectedKeywords[i]
             weight == keywordWeight(keywordWeightage, keyword)
             found == containsKeyword(studentAnswer, keyword)
         IN  gradeLoop(studentAnswer, expectedKeywords, keywordWeightage, i + 1,
                 [matches |-> Append(acc.matches,
                                  [keyword |-> keyword, found |-> found, weight |-> weight]),
                  earnedPoints |-> acc.earnedPoints + (IF found THEN weight ELSE 0),
                  maxPossiblePoints |-> acc.maxPossiblePoints + weight])

\* Math.floor in place of Math.round.
MathRound_Floor(n, d) == n \div d

\* Math.round(n / d) for d > 0: the nearest integer, a half rounding up.
MathRound(n, d) == (2 * n + d) \div (2 * d)

\* The result object built after the loop.  score100 is
\* Math.round(normalizedScore * 100), the score in hundredths.
gradingResultOf(acc, totalPoints) ==
    IF acc.maxPossiblePoints > 0
    THEN [score100 |-> MathRound(acc.earnedPoints * totalPoints * 100, acc.maxPossiblePoints),
          maxScore |-> totalPoints,
          percentage |-> <<acc.earnedPoints * 100, acc.maxPossiblePoints>>,
          matchedKeywords |-> acc.matches]
    ELSE [score100 |-> 0,
          maxScore |-> totalPoints,
          percentage |-> <<0, 1>>,
          matchedKeywords |-> acc.matches]

emptyResult(totalPoints) ==
    [score100 |-> 0, maxScore |-> totalPoints, percentage |-> <<0, 1>>,
     matchedKeywords |-> <<>>]

startAcc == [matches |-> <<>>, earnedPoints |-> 0, maxPossiblePoints |-> 0]

\* Without the early return for an empty answer or an empty keyword list.
gradeShortAnswer_NoGuard(studentAnswer, expectedKeywords, keywordWeightage, totalPoints) ==
    gradingResultOf(
        gradeLoop(studentAnswer, expectedKeywords, keywordWeightage, 1, startAcc),
        totalPoints)

gradeShortAnswer(studentAnswer, expectedKeywords, keywordWeightage, totalPoints) ==
    IF studentAnswer = <<>> \/ expectedKeywords = <<>>
    THEN emptyResult(totalPoints)
    ELSE gradingResultOf(
             gradeLoop(studentAnswer, expectedKeywords, keywordWeightage, 1, startAcc),
             totalPoints)

\* a / b >= n and a / b <= n for a fraction <<a, b>> with b > 0.
FracGeq(f, n) == f[1] >= n * f[2]
FracLeq(f, n) == f[1] <= n * f[2]

\* A band of ten points either side of reviewThreshold.
requiresManualReview_AroundThreshold(gradingResult, reviewThreshold) ==
    /\ FracGeq(gradingResult.percentage, reviewThreshold - 10)
    /\ FracLeq(gradingResult.percentage, reviewThreshold + 10)

requiresManualReview(gradingResult, reviewThreshold) ==
    IF FracGeq(gradingResult.percentage, 40) /\ FracLeq(gradingResult.percentage, 60)
    THEN TRUE
    ELSE FALSE

-----------------------------------------------------------------------------
(* QuizTaking.tsx, handleSubmitQuiz: the grading of one answer.            *)

\* A column that may be null.
Null == [isNull |-> TRUE]
Some(v) == [isNull |-> FALSE, value |-> v]

\* The body of the callback that builds answerData, for an answer whose
\* question was found: isCorrect, pointsEarned (in hundredths of a point),
\* autoGradedScore (in hundredths, or null) and requiresManualReview.
gradeAnswer(question, answer) ==
    CASE question.question_type = "multiple-choice" ->
            LET isCorrect == Some(answer) = question.correct_answer
            IN  [isCorrect |-> isCorrect,
                 pointsEarned |-> IF isCorrect THEN question.points * 100 ELSE 0,
                 autoGradedScore |-> Null,
                 requiresManualReview |-> FALSE]
      [] question.question_type = "fill-blank" ->
            LET isCorrect ==
                    /\ ~question.correct_answer.isNull
                    /\ trim(toLowerCase(answer))
                         = trim(toLowerCase(question.correct_answer.value))
            IN  [isCorrect |-> isCorrect,
                 pointsEarned |-> IF isCorrect THEN question.points * 100 ELSE 0,
                 autoGradedScore |-> Null,
                 requiresManualReview |-> FALSE]
      [] question.question_type = "short-answer" ->
            IF ~question.expected_keywords.isNull /\ ~question.keyword_weightage.isNull
            THEN LET gradingResult ==
                         gradeShortAnswer(answer,
                                          question.expected_keywords.value,
                                          question.keyword_weightage.value,
                                          question.points)
                 IN  [isCorrect |-> gradingResult.score100 > 0,
                      pointsEarned |-> gradingResult.score100,
                      autoGradedScore |-> Some(gradingResult.score100),
                      requiresManualReview |->
                          /\ FracGeq(gradingResult.percentage, 40)
                          /\ FracLeq(gradingResult.percentage, 60)]
            ELSE [isCorrect |-> FALSE,
                  pointsEarned |-> 0,
                  autoGradedScore |-> Null,
                  requiresManualReview |-> TRUE]
      [] OTHER ->
            [isCorrect |-> FALSE, pointsEarned |-> 0, autoGradedScore |-> Null,
             requiresManualReview |-> FALSE]

-----------------------------------------------------------------------------
(* The inputs the calls are made with.                                     *)

Range(f) == {f[i] : i \in DOMAIN f}

TextInputs == SeqsUpTo(Chars, MaxTextLen)

\* Answers of letters, and an answer of whitespace alone.
AnswerChars == {"a", "b"}
AnswerInputs == SeqsUpTo(AnswerChars, MaxAnswerLen) \cup {<<" ">>}

\* "." normalizes to the empty string.
KeywordInputs == {<<"a">>, <<"b">>, <<".">>}
KeywordListInputs == SeqsUpTo(KeywordInputs, MaxKeywords)

WeightInputs == -1..MaxWeight
\* The weight maps that differ on the keywords of the list.
WeightMapInputs(keywords) == UNION {[D -> WeightInputs] : D \in SUBSET Range(keywords)}

\* points is an INTEGER column; the function itself takes any number.
PointsInputs == {-1, 0, 1, 6}

\* Percentages around the two ends of the review band: 39.99, 40, 50, 60, 60.01.
BoundaryPercentages == {<<3999, 100>>, <<40, 1>>, <<50, 1>>, <<60, 1>>, <<6001, 100>>,
                        <<0, 1>>, <<100, 1>>}
ThresholdInputs == {0, 39, 50, 61, 100}

-----------------------------------------------------------------------------
(* The calls.                                                              *)

Init ==
    /\ op = "none"
    /\ args = <<>>
    /\ ret = <<>>
    /\ quizzesTable = {}
    /\ questionsTable = <<>>
    /\ storage = {}
    /\ create = [pc |-> "idle"]
    /\ dummy2 = [pc |-> "idle"]
    /\ taking = [pc |-> "unmounted"]
    /\ quizAttempts = <<>>
    /\ attemptAnswers = <<>>

CallNormalizeText ==
    /\ op = "none"
    /\ UNCHANGED store
    /\ \E text \in TextInputs :
        /\ op' = "normalizeText"
        /\ args' = [text |-> text]
        /\ ret' = normalizeText(text)

CallGradeShortAnswer ==
    /\ op = "none"
    /\ UNCHANGED store
    /\ \E studentAnswer \in AnswerInputs, expectedKeywords \in KeywordListInputs,
          totalPoints \in PointsInputs :
        \E keywordWeightage \in WeightMapInputs(expectedKeywords) :
            /\ op' = "gradeShortAnswer"
            /\ args' = [studentAnswer |-> studentAnswer,
                        expectedKeywords |-> expectedKeywords,
                        keywordWeightage |-> keywordWeightage,
                        totalPoints |-> totalPoints]
            /\ ret' = gradeShortAnswer(studentAnswer, expectedKeywords,
                                       keywordWeightage, totalPoints)

\* requiresManualReview on a result of the grader, or on a result with a
\* percentage at the ends of the band; the second argument is optional
\* (it defaults to 50).
CallRequiresManualReview ==
    /\ op = "none"
    /\ UNCHANGED store
    /\ \E percentage \in BoundaryPercentages, totalPoints \in PointsInputs,
          reviewThreshold \in ThresholdInputs :
        LET gradingResult == [score100 |-> 0, maxScore |-> totalPoints,
                              percentage |-> percentage, matchedKeywords |-> <<>>]
        IN  /\ op' = "requiresManualReview"
            /\ args' = [gradingResult |-> gradingResult, reviewThreshold |-> reviewThreshold]
            /\ ret' = requiresManualReview(gradingResult, reviewThreshold)

\* handleSubmitQuiz grading the answer to one short-answer question.
SubmitShortAnswer ==
    /\ op = "none"
    /\ UNCHANGED store
    /\ \E answer \in AnswerInputs, expectedKeywords \in KeywordListInputs,
          points \in PointsInputs \ {-1} :
        \E keywordWeightage \in WeightMapInputs(expectedKeywords) :
            \E question \in
                 {[question_type |-> "short-answer", correct_answer |-> Null,
                   points |-> points, expected_keywords |-> ek, keyword_weightage |-> kw] :
                     ek \in {Null, Some(expectedKeywords)},
                     kw \in {Null, Some(keywordWeightage)}} :
                /\ op' = "handleSubmitQuiz"
                /\ args' = [question |-> question, answer |-> answer]
                /\ ret' = gradeAnswer(question, answer)

NextNormalize == CallNormalizeText
SpecNormalize == Init /\ [][NextNormalize]_vars

NextGrade == CallGradeShortAnswer
SpecGrade == Init /\ [][NextGrade]_vars

NextReview == CallRequiresManualReview \/ SubmitShortAnswer
SpecReview == Init /\ [][NextReview]_vars


-----------------------------------------------------------------------------
(* Properties of gradeShortAnswer.                                         *)

Graded == op = "gradeShortAnswer"

\* The answer and every keyword are made of letters, so that the matcher's
\* treatment of empty words plays no part in the call.
LettersOnly ==
    /\ args.studentAnswer # <<>>
    /\ \A i \in DOMAIN args.studentAnswer : args.studentAnswer[i] \in LowerChars
    /\ \A j \in DOMAIN args.expectedKeywords :
          \A i \in DOMAIN args.expectedKeywords[j] :
              args.expectedKeywords[j][i] \in LowerChars

RECURSIVE SumWeights(_, _)
\* The sum of the weights of the match entries, of the found ones only if
\* foundOnly.
SumWeights(matches, foundOnly) ==
    IF matches = <<>> THEN 0
    ELSE (IF foundOnly /\ ~Head(matches).found THEN 0 ELSE Head(matches).weight)
            + SumWeights(Tail(matches), foundOnly)

\* C1: an empty response or an empty keyword list is graded score 0,
\* percentage 0, maxScore = totalPoints, with an empty match list, whatever
\* the weight map and totalPoints are.
C1_EmptyInputGradesZero ==
    (Graded /\ (args.studentAnswer = <<>> \/ args.expectedKeywords = <<>>))
        => /\ ret.score100 = 0
           /\ ret.percentage[1] = 0
           /\ ret.maxScore = args.totalPoints
           /\ ret.matchedKeywords = <<>>

C1_Witness ==
    /\ Graded
    /\ args.studentAnswer = <<>>
    /\ args.expectedKeywords = <<<<"a">>, <<"b">>>>
    /\ DOMAIN args.keywordWeightage = {<<"a">>}
    /\ args.totalPoints = 6
    /\ ret.score100 = 0

C3_ScoreFormula ==
    (Graded /\ args.studentAnswer # <<>> /\ args.expectedKeywords # <<>>)
        => LET earned == SumWeights(ret.matchedKeywords, TRUE)
               possible == SumWeights(ret.matchedKeywords, FALSE)
               x == earned * args.totalPoints * 100
           IN  /\ Len(ret.matchedKeywords) = Len(args.expectedKeywords)
               /\ possible > 0 =>
                    /\ 2 * possible * ret.score100 <= 2 * x + possible
                    /\ 2 * x + possible < 2 * possible * (ret.score100 + 1)
                    /\ ret.percentage[1] * possible = earned * 100 * ret.percentage[2]
               /\ possible <= 0 => (ret.score100 = 0 /\ ret.percentage[1] = 0)
               /\ ret.percentage[2] > 0
               /\ (/\ args.expectedKeywords = <<<<"a">>, <<"b">>>>
                   /\ args.keywordWeightage = (<<"a">> :> 2) @@ (<<"b">> :> 1)
                   /\ args.totalPoints = 6
                   /\ args.studentAnswer = <<"b">>)
                    => /\ ret.score100 = 200
                       /\ 3 * ret.percentage[1] = 100 * ret.percentage[2]
                       /\ ~requiresManualReview(ret, 50)

C3_Witness ==
    /\ Graded
    /\ args.expectedKeywords = <<<<"a">>, <<"b">>>>
    /\ args.keywordWeightage = (<<"a">> :> 2) @@ (<<"b">> :> 1)
    /\ args.totalPoints = 6
    /\ args.studentAnswer = <<"b">>
    /\ ret.matchedKeywords = <<[keyword |-> <<"a">>, found |-> FALSE, weight |-> 2],
                               [keyword |-> <<"b">>, found |-> TRUE, weight |-> 1]>>
    /\ ret.score100 = 200

\* C4: every result has 0 <= score <= totalPoints and 0 <= percentage <= 100
\* when totalPoints >= 0, for every weight map (missing, zero and negative
\* entries included).  Stated for answers and keywords of letters, with
\* totalPoints > 0.
C4_ScoreWithinBounds ==
    (Graded /\ LettersOnly /\ args.totalPoints > 0)
        => /\ 0 <= ret.score100
           /\ ret.score100 <= 100 * args.totalPoints
           /\ 0 <= ret.percentage[1]
           /\ ret.percentage[1] <= 100 * ret.percentage[2]

\* C5: with totalPoints <= 0 the score is 0.  Stated for answers and
\* keywords of letters and weight maps with no negative entry.
C5_NonPositivePointsScoreZero ==
    (/\ Graded
     /\ LettersOnly
     /\ \A k \in DOMAIN args.keywordWeightage : args.keywordWeightage[k] >= 0
     /\ args.totalPoints <= 0)
        => ret.score100 = 0

\* C6: the match list has one entry per rubric keyword, in rubric order, and
\* the weight of the entry of keyword k is the rubric's entry for k when it
\* has one and 1 only when it has none.  Stated for answers and keywords of
\* letters, with totalPoints > 0.
C6_WeightIsRubricEntry ==
    (Graded /\ LettersOnly /\ args.expectedKeywords # <<>> /\ args.totalPoints > 0)
        => /\ Len(ret.matchedKeywords) = Len(args.expectedKeywords)
           /\ \A i \in DOMAIN ret.matchedKeywords :
                LET k == args.expectedKeywords[i]
                IN  /\ ret.matchedKeywords[i].keyword = k
                    /\ ret.matchedKeywords[i].weight =
                         IF k \in DOMAIN args.keywordWeightage
                         THEN args.keywordWeightage[k]
                         ELSE 1

\* C10: a keyword that normalizes to the empty string is reported as not
\* found.  Stated for answers of letters, with totalPoints > 0.
C10_EmptyKeywordNotFound ==
    (/\ Graded
     /\ \A i \in DOMAIN args.studentAnswer : args.studentAnswer[i] \in LowerChars
     /\ args.totalPoints > 0) =>
        \A i \in DOMAIN ret.matchedKeywords :
            normalizeText(ret.matchedKeywords[i].keyword) = <<>>
                => ~ret.matchedKeywords[i].found

-----------------------------------------------------------------------------
(* Properties of the manual-review flag.                                   *)

\* C7: requiresManualReview is true exactly when 40 <= percentage <= 60,
\* whatever reviewThreshold is (39.99 and 60.01 are not flagged, 40 and 60
\* are), and the requires_manual_review that handleSubmitQuiz computes for a
\* short answer graded against a rubric is the same predicate of the
\* grader's percentage.
C7_ReviewBandInclusive ==
    /\ op = "requiresManualReview" =>
        LET p == args.gradingResult.percentage
        IN  /\ ret = (40 * p[2] <= p[1] /\ p[1] <= 60 * p[2])
            /\ p \in {<<40, 1>>, <<60, 1>>} => ret = TRUE
            /\ p \in {<<3999, 100>>, <<6001, 100>>} => ret = FALSE
    /\ (/\ op = "handleSubmitQuiz"
        /\ ~args.question.expected_keywords.isNull
        /\ ~args.question.keyword_weightage.isNull) =>
        LET p == gradeShortAnswer(args.answer,
                                  args.question.expected_keywords.value,
                                  args.question.keyword_weightage.value,
                                  args.question.points).percentage
        IN  ret.requiresManualReview = (40 * p[2] <= p[1] /\ p[1] <= 60 * p[2])

C7_Witness ==
    /\ op = "requiresManualReview"
    /\ args.gradingResult.percentage = <<60, 1>>
    /\ args.reviewThreshold = 0
    /\ ret = TRUE

-----------------------------------------------------------------------------
(* Properties of normalizeText.                                            *)

\* C8: normalizeText is idempotent, and an input of whitespace alone (the
\* empty input included) gives the empty string.
C8_NormalizeIdempotent ==
    op = "normalizeText" =>
        /\ normalizeText(ret) = ret
        /\ (\A i \in DOMAIN args.text : args.text[i] \in SpaceChars) => ret = <<>>

C8_Witness ==
    /\ op = "normalizeText"
    /\ args.text = <<".", "A", "\n">>
    /\ ret = <<"a">>

\* C9: the output of normalizeText holds only lowercase letters, digits and
\* single spaces, with no space first or last.
C9_NormalizedAlphabet ==
    op = "normalizeText" =>
        /\ \A i \in DOMAIN ret : ret[i] \in LowerChars \cup DigitChars \cup {" "}
        /\ \A i \in 1..(Len(ret) - 1) : ~(ret[i] = " " /\ ret[i + 1] = " ")
        /\ ret # <<>> => (ret[1] # " " /\ ret[Len(ret)] # " ")

-----------------------------------------------------------------------------
(* containsKeyword called on its own.                                      *)

MatchChars == {"a", "b", " ", "."}
MatchInputs == SeqsUpTo(MatchChars, MaxMatchLen)

CallContainsKeyword ==
    /\ op = "none"
    /\ UNCHANGED store
    /\ \E answer \in MatchInputs, keyword \in MatchInputs :
        /\ op' = "containsKeyword"
        /\ args' = [answer |-> answer, keyword |-> keyword]
        /\ ret' = containsKeyword(answer, keyword)

NextMatch == CallContainsKeyword
SpecMatch == Init /\ [][NextMatch]_vars

\* The whitespace-delimited words of a string.
WordsOf(s) == {w \in Range(split(s)) : w # <<>>}

\* C11: for a non-empty keyword, containsKeyword is true exactly when the
\* normalized keyword is a substring of the normalized response, or every
\* word of the normalized keyword has a word of the normalized response
\* such that one of the two is a substring of the other.  Stated for the
\* non-empty answers gradeShortAnswer passes on.
C11_MatchIffSubstringOrWordOverlap ==
    (op = "containsKeyword" /\ args.keyword # <<>> /\ args.answer # <<>>) =>
        LET r == normalizeText(args.answer)
            k == normalizeText(args.keyword)
        IN  ret = (\/ includes(r, k)
                   \/ \A kw \in WordsOf(k) :
                        \E rw \in WordsOf(r) : includes(rw, kw) \/ includes(kw, rw))

-----------------------------------------------------------------------------
(* realPdfParser.ts, the text-based parseQuizFromPDF: regular expressions. *)

DecimalDigits == {"0", "1", "2", "3", "4", "5", "6", "7", "8", "9"}

UpperLetters == <<"A", "B", "C", "D", "E", "F", "G", "H", "I", "J", "K", "L", "M",
                  "N", "O", "P", "Q", "R", "S", "T", "U", "V", "W", "X", "Y", "Z">>
LowerLetters == <<"a", "b", "c", "d", "e", "f", "g", "h", "i", "j", "k", "l", "m",
                  "n", "o", "p", "q", "r", "s", "t", "u", "v", "w", "x", "y", "z">>

\* Case folding of one character, as the i flag and toUpperCase need it.
lowerOf(c) ==
    IF \E i \in 1..26 : UpperLetters[i] = c
    THEN LowerLetters[CHOOSE i \in 1..26 : UpperLetters[i] = c]
    ELSE c
upperOf(c) ==
    IF \E i \in 1..26 : LowerLetters[i] = c
    THEN UpperLetters[CHOOSE i \in 1..26 : LowerLetters[i] = c]
    ELSE c

\* The literal words of the patterns.
AnswerWord == <<"A", "n", "s", "w", "e", "r">>
CorrectWord == <<"C", "o", "r", "r", "e", "c", "t">>

\* The text t continues with the word w at index i.
startsWithAt(t, i, w) ==
    /\ i + Len(w) - 1 <= Len(t)
    /\ \A k \in 1..Len(w) : t[i + k - 1] = w[k]

\* The same under the i flag.
startsWithAtIgnoreCase(t, i, w) ==
    /\ i + Len(w) - 1 <= Len(t)
    /\ \A k \in 1..Len(w) : lowerOf(t[i + k - 1]) = lowerOf(w[k])

\* \s* from index i: the index of the first character that is not whitespace.
RECURSIVE skipSpaces(_, _)
skipSpaces(t, i) ==
    IF i <= Len(t) /\ IsSpaceChar(t[i]) THEN skipSpaces(t, i + 1) ELSE i

\* \d* from index i: the index of the first character that is not a digit.
RECURSIVE skipDigits(_, _)
skipDigits(t, i) ==
    IF i <= Len(t) /\ t[i] \in DecimalDigits THEN skipDigits(t, i + 1) ELSE i

\* \d+\. matches at index i.
numberDotAt(t, i) ==
    /\ i <= Len(t)
    /\ t[i] \in DecimalDigits
    /\ skipDigits(t, i) <= Len(t)
    /\ t[skipDigits(t, i)] = "."

\* (?=^\d+\.\s) under the m flag matches at index i: a line starts at i
\* and a question number, a period and a whitespace character follow.
questionMarkerAt(t, i) ==
    /\ (i = 1 \/ t[i - 1] = "\n")
    /\ numberDotAt(t, i)
    /\ skipDigits(t, i) + 1 <= Len(t)
    /\ IsSpaceChar(t[skipDigits(t, i) + 1])

\* The indices at which allText.split(/(?=^\d+\.\s)/m) cuts: the empty
\* match at the start of the text cuts nothing.
splitPoints(t) == {q \in 2..Len(t) : questionMarkerAt(t, q)}

\* The pieces of allText.split(/(?=^\d+\.\s)/m), in the order of the text.
questionBlocks(allText) ==
    LET cuts == splitPoints(allText)
        nth(k) == CHOOSE c \in cuts : Cardinality({d \in cuts : d < c}) = k - 1
    IN  [k \in 1..(Cardinality(cuts) + 1) |->
            SubSeq(allText,
                   IF k = 1 THEN 1 ELSE nth(k - 1),
                   IF k = Cardinality(cuts) + 1 THEN Len(allText) ELSE nth(k) - 1)]

\* [A-D]\. or [B][\.\)] and the like at index i.
labelAt(t, i, letters, marks) ==
    /\ i + 1 <= Len(t)
    /\ t[i] \in letters
    /\ t[i + 1] \in marks

\* The lookahead that ends the lazy group (.+?) of each pattern, at index
\* e; the alternative $ is the end of the block.
lookaheadAt(kind, t, e) ==
    CASE kind = "question" ->
            labelAt(t, skipSpaces(t, e), {"A", "B", "C", "D"}, {"."})
      [] kind = "A" ->
            labelAt(t, skipSpaces(t, e), {"B"}, {".", ")"}) \/ startsWithAt(t, e, AnswerWord)
      [] kind = "B" ->
            labelAt(t, skipSpaces(t, e), {"C"}, {".", ")"}) \/ startsWithAt(t, e, AnswerWord)
      [] kind = "C" ->
            labelAt(t, skipSpaces(t, e), {"D"}, {".", ")"}) \/ startsWithAt(t, e, AnswerWord)
      [] kind = "D" ->
            LET j == skipSpaces(t, e)
            IN  \/ startsWithAt(t, j, AnswerWord)
                \/ startsWithAt(t, j, CorrectWord)
                \/ numberDotAt(t, j)

\* The index after the lazy group (.+?): the first index e at which the
\* lookahead holds, the group holding at least one character.
RECURSIVE lazyEnd(_, _, _)
lazyEnd(kind, t, e) ==
    IF e > Len(t) THEN Len(t) + 1
    ELSE IF lookaheadAt(kind, t, e) THEN e
    ELSE lazyEnd(kind, t, e + 1)

\* The captured group of a pattern \s*(.+?)(?=...) that starts at index i,
\* after .trim().replace(/\s+/g, ' ').  When only whitespace is left the
\* group is a whitespace character, or there is no match: '' either way.
lazyGroup(kind, t, i) ==
    LET s == skipSpaces(t, i)
    IN  IF s > Len(t) THEN <<>>
        ELSE collapseSpaces(trim(SubSeq(t, s, lazyEnd(kind, t, s + 1) - 1)))

\* The leftmost index from i on where letter is followed by . or ); 0 if none.
RECURSIVE findLabel(_, _, _)
findLabel(t, i, letter) ==
    IF i + 1 > Len(t) THEN 0
    ELSE IF labelAt(t, i, {letter}, {".", ")"}) THEN i
    ELSE findLabel(t, i + 1, letter)

\* block.match(/[A][\.\)]\s*(.+?)(?=...)/s)?.[1]?.trim().replace(/\s+/g, ' ') || ''
optionText(block, letter) ==
    LET i == findLabel(block, 1, letter)
    IN  IF i = 0 THEN <<>> ELSE lazyGroup(letter, block, i + 2)

\* The letter captured by /(?:Answer|Correct)\s*:?\s*([A-D])/i at index i,
\* or "" when the pattern does not match there.
answerLetterAt(t, i) ==
    LET w == IF startsWithAtIgnoreCase(t, i, AnswerWord) THEN Len(AnswerWord)
             ELSE IF startsWithAtIgnoreCase(t, i, CorrectWord) THEN Len(CorrectWord)
             ELSE 0
        j == skipSpaces(t, i + w)
        k == IF j <= Len(t) /\ t[j] = ":" THEN skipSpaces(t, j + 1) ELSE j
    IN  IF w > 0 /\ k <= Len(t) /\ upperOf(t[k]) \in {"A", "B", "C", "D"}
        THEN t[k]
        ELSE ""

\* block.match(/(?:Answer|Correct)\s*:?\s*([A-D])/i): the letter of the
\* leftmost match, or "" when there is none.
RECURSIVE answerMatch(_, _)
answerMatch(t, i) ==
    IF i > Len(t) THEN ""
    ELSE IF answerLetterAt(t, i) # "" THEN answerLetterAt(t, i)
    ELSE answerMatch(t, i + 1)

\* parseInt of a string of digits.
RECURSIVE parseInt(_)
parseInt(digits) ==
    IF digits = <<>> THEN 0
    ELSE 10 * parseInt(SubSeq(digits, 1, Len(digits) - 1))
            + (CHOOSE v \in 0..9 : <<"0", "1", "2", "3", "4", "5", "6", "7", "8", "9">>[v + 1]
                                        = digits[Len(digits)])

-----------------------------------------------------------------------------
(* realPdfParser.ts, the text-based parseQuizFromPDF.  A document is its
   pages, a page the strings of its text items. *)

\* items.join(' ')
RECURSIVE joinItems(_)
joinItems(items) ==
    IF items = <<>> THEN <<>>
    ELSE IF Len(items) = 1 THEN items[1]
    ELSE items[1] \o <<" ">> \o joinItems(Tail(items))

\* The text of all pages, each page followed by a line break.
RECURSIVE extractAllText(_)
extractAllText(pages) ==
    IF pages = <<>> THEN <<>>
    ELSE joinItems(pages[1]) \o <<"\n">> \o extractAllText(Tail(pages))

\* A variant that never reads the answer marker.
markedAnswer_IgnoreMarker(block, options) == <<>>

\* The option at the letter of the answer marker, '' without a marker.
markedAnswer(block, options) ==
    LET answerLetter == upperOf(answerMatch(block, 1))
        answerIndex == CHOOSE i \in 0..3 : <<"A", "B", "C", "D">>[i + 1] = answerLetter
    IN  IF answerMatch(block, 1) = "" THEN <<>> ELSE options[answerIndex + 1]

\* One turn of the loop over the blocks: the block is passed over
\* ("none"), skipped with a console.warn ("skipped") or pushed as a
\* question ("question").
extractBlock(block) ==
    LET numEnd == skipDigits(block, 1)
        questionNum == SubSeq(block, 1, numEnd - 1)
        questionText == lazyGroup("question", block, numEnd + 1)
        options == <<optionText(block, "A"), optionText(block, "B"),
                     optionText(block, "C"), optionText(block, "D")>>
        correctAnswer == markedAnswer(block, options)
    IN  IF trim(block) = <<>> THEN [kind |-> "none"]
        ELSE IF ~numberDotAt(block, 1) THEN [kind |-> "none"]
        ELSE IF numEnd + 1 > Len(block) THEN [kind |-> "none"]
        ELSE IF questionText = <<>> \/ \E i \in 1..4 : options[i] = <<>>
             THEN [kind |-> "skipped", questionNum |-> questionNum]
        ELSE [kind |-> "question",
              question |->
                [question_text |-> questionText,
                 question_type |-> "multiple-choice",
                 options |-> options,
                 correct_answer |->
                     Some(IF correctAnswer # <<>> THEN correctAnswer ELSE options[1]),
                 points |-> 1,
                 order_index |-> parseInt(questionNum) - 1,
                 has_image |-> FALSE,
                 image_data |-> Null]]

\* The loop over the blocks: the questions pushed, in the order of the
\* blocks, and the console.warn messages.
RECURSIVE extractQuestions(_)
extractQuestions(blocks) ==
    IF blocks = <<>> THEN [questions |-> <<>>, warnings |-> <<>>]
    ELSE LET r == extractBlock(blocks[Len(blocks)])
             before == extractQuestions(SubSeq(blocks, 1, Len(blocks) - 1))
         IN  CASE r.kind = "question" ->
                    [before EXCEPT !.questions = Append(@, r.question)]
               [] r.kind = "skipped" ->
                    [before EXCEPT !.warnings =
                        Append(@, [message |-> "Skipping question - incomplete data",
                                   questionNum |-> parseInt(r.questionNum)])]
               [] OTHER -> before

\* A variant that puts a record before the records of equal index.
insertSorted_BeforeEqual(sorted, q) ==
    LET Lower(x) == x.order_index < q.order_index
        NotLower(x) == x.order_index >= q.order_index
    IN  SelectSeq(sorted, Lower) \o <<q>> \o SelectSeq(sorted, NotLower)

\* Array.prototype.sort with (a, b) => a - b on the indices: put one
\* record after the records that do not compare greater.
RECURSIVE insertSorted(_, _)
insertSorted(sorted, q) ==
    IF sorted = <<>> THEN <<q>>
    ELSE IF sorted[Len(sorted)].order_index - q.order_index <= 0 THEN Append(sorted, q)
    ELSE Append(insertSorted(SubSeq(sorted, 1, Len(sorted) - 1), q), sorted[Len(sorted)])

\* questions.sort((a, b) => a.order_index - b.order_index): a stable sort.
RECURSIVE sortByOrderIndex(_)
sortByOrderIndex(questions) ==
    IF questions = <<>> THEN <<>>
    ELSE insertSorted(sortByOrderIndex(SubSeq(questions, 1, Len(questions) - 1)),
                      questions[Len(questions)])

NoQuiz == [title |-> "", description |-> "", duration |-> 0, questions |-> <<>>]

\* parseQuizFromPDF(pdfFile) of the text-based version: the quiz returned
\* or the error thrown, and the warnings logged on the way.
parseQuizFromPDF(pages) ==
    LET extracted == extractQuestions(questionBlocks(extractAllText(pages)))
    IN  IF Len(extracted.questions) = 0
        THEN [threw |-> TRUE,
              error |-> "Failed to parse PDF: No questions detected in the PDF.",
              quiz |-> NoQuiz,
              warnings |-> extracted.warnings]
        ELSE [threw |-> FALSE,
              error |-> "",
              quiz |-> [title |-> "Imported Quiz",
                        description |-> "Quiz imported from PDF",
                        duration |-> 90,
                        questions |-> sortByOrderIndex(extracted.questions)],
              warnings |-> extracted.warnings]

-----------------------------------------------------------------------------
(* The documents parsed: up to MaxQuestions written questions, each on a
   new page or after the one before on the same page, and the single-line
   document of two questions. *)

MaxQuestions == 2

OrdinalInputs == {1, 2}
OptionInputs == {"A-D", "A-C"}
AnswerMarkInputs == {"none", "Answer: B", "correct:d"}

QuestionInputs ==
    [ordinal : OrdinalInputs, options : OptionInputs,
     answer : AnswerMarkInputs, newPage : BOOLEAN]

\* The text item of one written question.
renderQuestion(d) ==
    <<<<"0", "1", "2", "3", "4", "5", "6", "7", "8", "9">>[d.ordinal + 1]>>
    \o <<".", " ", "Q", " ", "A", ".", " ", "w", " ", "B", ".", " ", "x", " ",
      "C", ".", " ", "y">>
    \o (IF d.options = "A-D" THEN <<" ", "D", ".", " ", "z">> ELSE <<>>)
    \o (CASE d.answer = "Answer: B" -> <<" ", "A", "n", "s", "w", "e", "r", ":", " ", "B">>
          [] d.answer = "correct:d" -> <<" ", "c", "o", "r", "r", "e", "c", "t", ":", "d">>
          [] OTHER -> <<>>)

\* The pages of a sequence of written questions.
RECURSIVE pagesOf(_)
pagesOf(ds) ==
    IF ds = <<>> THEN <<>>
    ELSE LET before == pagesOf(SubSeq(ds, 1, Len(ds) - 1))
             item == renderQuestion(ds[Len(ds)])
         IN  IF ds[Len(ds)].newPage \/ before = <<>>
             THEN Append(before, <<item>>)
             ELSE [before EXCEPT ![Len(before)] = Append(@, item)]

SingleLineText ==
    <<"1", ".", " ", "W", "h", "a", "t", " ", "i", "s", " ", "2", "+", "2",
      "?", " ", "A", ".", " ", "3", " ", "B", ".", " ", "4", " ", "C", ".",
      " ", "5", " ", "D", ".", " ", "6", " ", "A", "n", "s", "w", "e", "r",
      ":", " ", "B", " ", "2", ".", " ", "C", "a", "p", "i", "t", "a", "l",
      " ", "o", "f", " ", "F", "r", "a", "n", "c", "e", "?", " ", "A", ".",
      " ", "B", "e", "r", "l", "i", "n", " ", "B", ".", " ", "P", "a", "r",
      "i", "s", " ", "C", ".", " ", "R", "o", "m", "e", " ", "D", ".", " ",
      "M", "a", "d", "r", "i", "d", " ", "A", "n", "s", "w", "e", "r", ":",
      " ", "B">>

PdfInputs ==
    {pagesOf(ds) : ds \in {x \in SeqsUpTo(QuestionInputs, MaxQuestions) :
                              x # <<>> => x[1].newPage}}
    \cup {<<<<SingleLineText>>>>}

CallParseQuizFromPDF ==
    /\ op = "none"
    /\ UNCHANGED store
    /\ \E pages \in PdfInputs :
        /\ op' = "parseQuizFromPDF"
        /\ args' = [pages |-> pages]
        /\ ret' = parseQuizFromPDF(pages)

NextParse == CallParseQuizFromPDF
SpecParse == Init /\ [][NextParse]_vars

\* The blocks of the text that start with a question number.
DetectedOrdinals(pages) ==
    LET blocks == questionBlocks(extractAllText(pages))
    IN  {k \in DOMAIN blocks : numberDotAt(blocks[k], 1)}

\* C12: parseQuizFromPDF returns as many question records as the text has
\* detected question ordinals; a block whose four options cannot all be
\* parsed is kept and never skipped.
C12_RecordPerDetectedOrdinal ==
    op = "parseQuizFromPDF" =>
        Len(ret.quiz.questions) = Cardinality(DetectedOrdinals(args.pages))

\* C13: the single-line text of two questions yields exactly two records,
\* with order_index 0 and 1, four options each, and the correct answers
\* "4" and "Paris".
C13_SingleLineTextYieldsTwoQuestions ==
    (op = "parseQuizFromPDF" /\ args.pages = <<<<SingleLineText>>>>) =>
        /\ ~ret.threw
        /\ Len(ret.quiz.questions) = 2
        /\ ret.quiz.questions[1].order_index = 0
        /\ ret.quiz.questions[2].order_index = 1
        /\ \A i \in 1..2 : Len(ret.quiz.questions[i].options) = 4
        /\ ret.quiz.questions[1].correct_answer = Some(<<"4">>)
        /\ ret.quiz.questions[2].correct_answer = Some(<<"P", "a", "r", "i", "s">>)

\* The position in the options of an answer letter, A first.
LetterPosition(letter) ==
    CASE letter \in {"A", "a"} -> 1
      [] letter \in {"B", "b"} -> 2
      [] letter \in {"C", "c"} -> 3
      [] letter \in {"D", "d"} -> 4

\* The record q was extracted from the block b: the block carries its
\* ordinal and its four options.
ExtractedFrom(q, b) ==
    /\ numberDotAt(b, 1)
    /\ parseInt(SubSeq(b, 1, skipDigits(b, 1) - 1)) - 1 = q.order_index
    /\ q.options = <<optionText(b, "A"), optionText(b, "B"),
                     optionText(b, "C"), optionText(b, "D")>>
    /\ \A i \in 1..4 : q.options[i] # <<>>

\* C14: every record of the text-based extractor has as correct_answer
\* the option at the position of the letter its block's Answer/Correct
\* marker names, the first option when the block has no marker, and so
\* always one of its four options.
C14_CorrectAnswerIsMarkedOption ==
    (op = "parseQuizFromPDF" /\ ~ret.threw) =>
        \A i \in DOMAIN ret.quiz.questions :
            LET q == ret.quiz.questions[i]
                blocks == questionBlocks(extractAllText(args.pages))
            IN  /\ Len(q.options) = 4
                /\ \E j \in 1..4 : q.correct_answer = Some(q.options[j])
                /\ \E k \in DOMAIN blocks :
                    /\ ExtractedFrom(q, blocks[k])
                    /\ q.correct_answer =
                         IF answerMatch(blocks[k], 1) = "" THEN Some(q.options[1])
                         ELSE Some(q.options[LetterPosition(answerMatch(blocks[k], 1))])

\* A quiz with a record whose marker names the last option and a record
\* without a marker.
C14_Witness ==
    /\ op = "parseQuizFromPDF"
    /\ ~ret.threw
    /\ Len(ret.quiz.questions) = 2
    /\ ret.quiz.questions[1].correct_answer = Some(ret.quiz.questions[1].options[4])
    /\ ret.quiz.questions[2].correct_answer = Some(ret.quiz.questions[2].options[1])
    /\ Len(questionBlocks(extractAllText(args.pages))) = 2
    /\ answerMatch(questionBlocks(extractAllText(args.pages))[1], 1) = "d"
    /\ answerMatch(questionBlocks(extractAllText(args.pages))[2], 1) = ""

\* The question records in the order the extractor met them.
ExtractedRecords(pages) ==
    extractQuestions(questionBlocks(extractAllText(pages))).questions

\* The records of a list that carry the order_index v, in the list's order.
WithIndex(questions, v) ==
    LET Test(q) == q.order_index = v
    IN  SelectSeq(questions, Test)

\* C16: the questions of the returned quiz are the extracted records,
\* none dropped or duplicated, in ascending order of order_index, records
\* of equal order_index in the order they were met.
C16_StableSortedPermutation ==
    (op = "parseQuizFromPDF" /\ ~ret.threw) =>
        LET out == ret.quiz.questions
            extracted == ExtractedRecords(args.pages)
        IN  /\ Len(out) = Len(extracted)
            /\ \A i \in 1..(Len(out) - 1) : out[i].order_index <= out[i + 1].order_index
            /\ \A v \in {extracted[i].order_index : i \in DOMAIN extracted} :
                   WithIndex(out, v) = WithIndex(extracted, v)

\* Two records met in descending order of order_index come back swapped.
C16_Witness ==
    /\ op = "parseQuizFromPDF"
    /\ ~ret.threw
    /\ Len(ExtractedRecords(args.pages)) = 2
    /\ ExtractedRecords(args.pages)[1].order_index > ExtractedRecords(args.pages)[2].order_index
    /\ ret.quiz.questions = <<ExtractedRecords(args.pages)[2], ExtractedRecords(args.pages)[1]>>

\* Two of the extracted records carry the same order_index.
OrdinalCollision(pages) ==
    \E i, j \in DOMAIN ExtractedRecords(pages) :
        i # j /\ ExtractedRecords(pages)[i].order_index = ExtractedRecords(pages)[j].order_index

\* C17: when extracted questions carry the same ordinal, the quiz is
\* still returned with all of them and the collision is reported as a
\* warning: a warning other than that of a skipped block.
C17_CollisionWarned ==
    (op = "parseQuizFromPDF" /\ OrdinalCollision(args.pages)) =>
        /\ ~ret.threw
        /\ Len(ret.quiz.questions) = Len(ExtractedRecords(args.pages))
        /\ \E k \in DOMAIN ret.warnings :
               ret.warnings[k].message # "Skipping question - incomplete data"

-----------------------------------------------------------------------------
(* realPdfParser.ts, the parseQuizFromPDF that keeps each page as an image. *)

\* pageText.split('\n').map(line => line.trim()).filter(line => line.length > 0)
pageLines(pageText) ==
    LET breaks == {i \in 1..Len(pageText) : pageText[i] = "\n"}
        nth(k) == CHOOSE c \in breaks : Cardinality({d \in breaks : d < c}) = k - 1
        pieces == [k \in 1..(Cardinality(breaks) + 1) |->
                     trim(SubSeq(pageText,
                                 IF k = 1 THEN 1 ELSE nth(k - 1) + 1,
                                 IF k = Cardinality(breaks) + 1 THEN Len(pageText)
                                 ELSE nth(k) - 1))]
        NonEmpty(line) == Len(line) > 0
    IN  SelectSeq(pieces, NonEmpty)

\* The index of the first line that matches /^\s*(\d+)\.\s*(.*)$/; 0 if none.
questionStartIndex(lines) ==
    IF \E i \in DOMAIN lines : numberDotAt(lines[i], 1)
    THEN CHOOSE i \in DOMAIN lines :
            /\ numberDotAt(lines[i], 1)
            /\ \A j \in 1..(i - 1) : ~numberDotAt(lines[j], 1)
    ELSE 0

\* The line matches /^[A-D]\.\s/ or /^\s*\d+\.\s/: options or another
\* question begin.
stopsQuestionText(line) ==
    \/ labelAt(line, 1, {"A", "B", "C", "D"}, {"."}) /\ Len(line) >= 3 /\ IsSpaceChar(line[3])
    \/ questionMarkerAt(line, 1)

\* The lines from index i on, each after a space, up to the stopping line.
RECURSIVE collectQuestionText(_, _)
collectQuestionText(lines, i) ==
    IF i > Len(lines) \/ stopsQuestionText(lines[i]) THEN <<>>
    ELSE <<" ">> \o lines[i] \o collectQuestionText(lines, i + 1)

\* The index after the group ([^A-D]*?) that starts at s: the first of
\* the letters A to D, or the end of the page.
groupEnd(t, s) ==
    CHOOSE e \in s..(Len(t) + 1) :
        /\ e = Len(t) + 1 \/ t[e] \in {"A", "B", "C", "D"}
        /\ \A j \in s..(e - 1) : t[j] \notin {"A", "B", "C", "D"}

\* The pattern letter\.\s*([^A-D]*?)(?=[A-D]\.|$), for D with (?=$),
\* matches at index i.
optionMatchAt(t, i, letter) ==
    /\ labelAt(t, i, {letter}, {"."})
    /\ LET e == groupEnd(t, i + 2)
       IN  \/ e = Len(t) + 1
           \/ letter # "D" /\ labelAt(t, e, {"A", "B", "C", "D"}, {"."})

\* The cleaned option of a letter as pushed to the options: the group of
\* the leftmost match, unless it is empty or starts a numbered question.
pageOption(pageText, letter) ==
    IF \E i \in 1..Len(pageText) : optionMatchAt(pageText, i, letter)
    THEN LET i == CHOOSE x \in 1..Len(pageText) :
                    /\ optionMatchAt(pageText, x, letter)
                    /\ \A y \in 1..(x - 1) : ~optionMatchAt(pageText, y, letter)
             cleanOption ==
                 collapseSpaces(trim(SubSeq(pageText, i + 2, groupEnd(pageText, i + 2) - 1)))
         IN  IF cleanOption # <<>> /\ ~numberDotAt(cleanOption, 1)
             THEN <<cleanOption>> ELSE <<>>
    ELSE <<>>

\* One turn of the loop over the pages: the page is passed over ("none")
\* or pushed as a question with its rendered image.
extractPage(pageText) ==
    LET lines == pageLines(pageText)
        start == questionStartIndex(lines)
        numEnd == skipDigits(lines[start], 1)
        questionNum == parseInt(SubSeq(lines[start], 1, numEnd - 1))
        questionText ==
            trim(trim(SubSeq(lines[start], numEnd + 1, Len(lines[start])))
                 \o collectQuestionText(lines, start + 1))
        options == pageOption(pageText, "A") \o pageOption(pageText, "B")
                   \o pageOption(pageText, "C") \o pageOption(pageText, "D")
    IN  IF start = 0 THEN [kind |-> "none"]
        ELSE IF questionNum = 0 THEN [kind |-> "none"]
        ELSE IF questionText = <<>> THEN [kind |-> "none"]
        ELSE [kind |-> "question",
              fallback |-> Len(options) # 4,
              question |->
                [question_text |-> questionText,
                 question_type |-> "multiple-choice",
                 options |-> IF Len(options) = 4 THEN options
                             ELSE <<<<"A">>, <<"B">>, <<"C">>, <<"D">>>>,
                 correct_answer |-> Some(<<>>),
                 points |-> 2,
                 order_index |-> questionNum - 1,
                 has_image |-> TRUE,
                 image_data |-> Some([blob |-> "image/png", filename |-> questionNum])]]

\* The loop over the pages, from the second page on.
RECURSIVE extractPages(_, _)
extractPages(pages, pageNum) ==
    IF pageNum < 2 THEN [questions |-> <<>>, warnings |-> <<>>]
    ELSE LET r == extractPage(joinItems(pages[pageNum]))
             before == extractPages(pages, pageNum - 1)
         IN  IF r.kind = "question"
             THEN [questions |-> Append(before.questions, r.question),
                   warnings |->
                       IF r.fallback
                       THEN Append(before.warnings,
                                   [message |-> "Expected 4 options",
                                    questionNum |-> r.question.order_index + 1])
                       ELSE before.warnings]
             ELSE before

\* parseQuizFromPDF(pdfFile) of the page-image version.
parseQuizFromPDF_PageImages(pages) ==
    LET extracted == extractPages(pages, Len(pages))
    IN  IF Len(extracted.questions) = 0
        THEN [threw |-> TRUE,
              error |-> "Failed to parse PDF: No questions detected in the PDF.",
              quiz |-> NoQuiz,
              warnings |-> extracted.warnings]
        ELSE [threw |-> FALSE,
              error |-> "",
              quiz |-> [title |-> "Dummy-2 (Dallas ISD)",
                        description |-> "Imported geometry assessment from Dallas ISD",
                        duration |-> 90,
                        questions |-> sortByOrderIndex(extracted.questions)],
              warnings |-> extracted.warnings]

\* The documents of PdfInputs, as they are and behind a cover page without
\* text.
CoverPage == <<>>
PageImageInputs == PdfInputs \cup {<<CoverPage>> \o pages : pages \in PdfInputs}

CallParseQuizFromPDF_PageImages ==
    /\ op = "none"
    /\ UNCHANGED store
    /\ \E pages \in PageImageInputs :
        /\ op' = "parseQuizFromPDF_PageImages"
        /\ args' = [pages |-> pages]
        /\ ret' = parseQuizFromPDF_PageImages(pages)

NextPageImages == CallParseQuizFromPDF_PageImages
SpecPageImages == Init /\ [][NextPageImages]_vars

-----------------------------------------------------------------------------
(* realPdfParser.ts, createQuizFromParsedData: the rows written. *)

\* question.correct_answer || ''
correctAnswerOrEmpty(correct_answer) ==
    IF correct_answer.isNull \/ correct_answer.value = <<>> THEN Some(<<>>)
    ELSE correct_answer

\* One member of questionsToInsert.
questionToInsert(quizId, question) ==
    [quiz_id |-> quizId,
     question_text |-> question.question_text,
     question_type |-> question.question_type,
     options |-> question.options,
     correct_answer |-> correctAnswerOrEmpty(question.correct_answer),
     points |-> question.points,
     order_index |-> question.order_index,
     has_image |-> question.has_image,
     image_url |-> Null]

\* C15: every record of the page-image parser has a null correct answer,
\* four options, has_image true with its image present, and a learner's
\* answer to the stored question is deferred to manual review.
C15_PageImageRecordsDeferred ==
    (op = "parseQuizFromPDF_PageImages" /\ ~ret.threw) =>
        \A i \in DOMAIN ret.quiz.questions :
            LET q == ret.quiz.questions[i]
            IN  /\ q.correct_answer = Null
                /\ Len(q.options) = 4
                /\ q.has_image
                /\ ~q.image_data.isNull
                /\ \A answer \in Range(q.options) :
                       gradeAnswer(questionToInsert("quiz", q), answer).requiresManualReview

-----------------------------------------------------------------------------
(* realPdfParser.ts, createQuizFromParsedData: the call, step by step.  Each
   await is a step; the image uploads and patches of the questions run
   concurrently. *)

\* The quizzes given to the call: up to MaxQuestions questions in ascending
\* order of order_index, as parseQuizFromPDF returns them, with or without
\* a page image.
TextQuestionInput(orderIndex) ==
    [question_text |-> <<"Q">>,
     question_type |-> "multiple-choice",
     options |-> <<<<"w">>, <<"x">>, <<"y">>, <<"z">>>>,
     correct_answer |-> Some(<<"w">>),
     points |-> 1,
     order_index |-> orderIndex,
     has_image |-> FALSE,
     image_data |-> Null]

ImageQuestionInput(orderIndex) ==
    [question_text |-> <<"Q">>,
     question_type |-> "multiple-choice",
     options |-> <<<<"A">>, <<"B">>, <<"C">>, <<"D">>>>,
     correct_answer |-> Some(<<>>),
     points |-> 2,
     order_index |-> orderIndex,
     has_image |-> TRUE,
     image_data |-> Some([blob |-> "image/png", filename |-> orderIndex + 1])]

ParsedQuestionInputs ==
    {TextQuestionInput(n - 1) : n \in OrdinalInputs}
    \cup {ImageQuestionInput(n - 1) : n \in OrdinalInputs}

ParsedQuizInputs ==
    {[title |-> "Imported Quiz", description |-> "Quiz imported from PDF",
      duration |-> 90, questions |-> qs] :
        qs \in {x \in SeqsUpTo(ParsedQuestionInputs, MaxQuestions) :
                   \A i \in 1..(Len(x) - 1) : x[i].order_index <= x[i + 1].order_index}}

\* A variant of the call that starts with the insert of the questions.
startCreate_SkipHeader(parsedQuiz) == [pc |-> "insertQuestions", parsedQuiz |-> parsedQuiz, quizId |-> 0, insertedQuestions |-> <<>>, tasks |-> <<>>, failed |-> {}, error |-> ""]

\* The call as it starts.
startCreate(parsedQuiz) ==
    [pc |-> "insertQuiz",
     parsedQuiz |-> parsedQuiz,
     quizId |-> 0,
     insertedQuestions |-> <<>>,
     tasks |-> <<>>,
     failed |-> {},
     error |-> ""]

\* The id the table quizzes gives its next row.
nextQuizId ==
    IF quizzesTable = {} THEN 1
    ELSE 1 + CHOOSE m \in {q.id : q \in quizzesTable} :
                 \A q \in quizzesTable : q.id <= m

\* uploadQuizImage: the name of the file and its public URL.
fileNameOf(quizId, questionIndex) == [quiz |-> quizId, question |-> questionIndex]
publicUrlOf(fileName) == [url |-> fileName]

\* insertedQuestions.find(q => q.order_index === question.order_index)
findInserted(insertedQuestions, orderIndex) ==
    insertedQuestions[CHOOSE i \in DOMAIN insertedQuestions :
                          /\ insertedQuestions[i].order_index = orderIndex
                          /\ \A j \in 1..(i - 1) : insertedQuestions[j].order_index # orderIndex]

\* The value the call hands to its caller, once it has one.
createOutcome(c) ==
    IF op = "createQuizFromParsedData" /\ c.pc \in {"returned", "threw"}
    THEN [threw |-> c.pc = "threw", error |-> c.error, value |-> c.quizId]
    ELSE ret

CallCreateQuizFromParsedData ==
    /\ op = "none"
    /\ create.pc = "idle"
    /\ \E parsedQuiz \in ParsedQuizInputs :
        /\ op' = "createQuizFromParsedData"
        /\ args' = [parsedQuiz |-> parsedQuiz]
        /\ create' = startCreate(parsedQuiz)
    /\ UNCHANGED <<ret, quizzesTable, questionsTable, storage, dummy2, quizTaking>>

\* The insert of the quiz header: the row is written, or the insert
\* fails and the call throws.
InsertQuiz ==
    /\ create.pc = "insertQuiz"
    /\ \E ok \in BOOLEAN :
        IF ok
        THEN /\ quizzesTable' = quizzesTable \cup
                    {[id |-> nextQuizId,
                      title |-> create.parsedQuiz.title,
                      status |-> "published"]}
             /\ create' = [create EXCEPT !.pc = "insertQuestions", !.quizId = nextQuizId]
        ELSE /\ create' = [create EXCEPT !.pc = "threw", !.error = "quizError"]
             /\ UNCHANGED quizzesTable
    /\ ret' = createOutcome(create')
    /\ UNCHANGED <<op, args, questionsTable, storage, dummy2, quizTaking>>

\* The insert of the question rows, all at once and without images; the
\* call throws when the insert fails or returns no row.  The image tasks
\* of the questions start with the rows inserted.
InsertQuestions ==
    /\ create.pc = "insertQuestions"
    /\ \E ok \in BOOLEAN :
        LET parsed == create.parsedQuiz.questions
            rows == [i \in 1..Len(parsed) |->
                        [id |-> Len(questionsTable) + i]
                            @@ questionToInsert(create.quizId, parsed[i])]
        IN  IF ~ok
            THEN /\ create' = [create EXCEPT !.pc = "threw", !.error = "questionsError"]
                 /\ UNCHANGED questionsTable
            ELSE IF Len(rows) = 0
            THEN /\ create' = [create EXCEPT !.pc = "threw",
                                             !.error = "No questions were created"]
                 /\ UNCHANGED questionsTable
            ELSE /\ questionsTable' = questionsTable \o rows
                 /\ create' =
                        [create EXCEPT
                            !.pc = "images",
                            !.insertedQuestions =
                                [i \in 1..Len(rows) |->
                                    [id |-> rows[i].id, order_index |-> rows[i].order_index]],
                            !.tasks =
                                [i \in 1..Len(parsed) |->
                                    IF ~parsed[i].has_image \/ parsed[i].image_data.isNull
                                    THEN "done" ELSE "upload"]]
    /\ ret' = createOutcome(create')
    /\ UNCHANGED <<op, args, quizzesTable, storage, dummy2, quizTaking>>

\* uploadQuizImage of one question: the file is stored, or the upload
\* fails, which the task catches and logs.
UploadImage ==
    /\ create.pc = "images"
    /\ \E i \in DOMAIN create.tasks, ok \in BOOLEAN :
        /\ create.tasks[i] = "upload"
        /\ IF ok
           THEN /\ storage' = storage \cup {fileNameOf(create.quizId, i - 1)}
                /\ create' = [create EXCEPT !.tasks[i] = "patch"]
           ELSE /\ create' = [create EXCEPT !.tasks[i] = "done", !.failed = @ \cup {i}]
                /\ UNCHANGED storage
    /\ UNCHANGED <<op, args, ret, quizzesTable, questionsTable, dummy2, quizTaking>>

\* The update of image_url on the row found by order_index: the row is
\* patched, or the update fails and the row is left as it is.
PatchImage ==
    /\ create.pc = "images"
    /\ \E i \in DOMAIN create.tasks, ok \in BOOLEAN :
        /\ create.tasks[i] = "patch"
        /\ LET insertedQuestion ==
                   findInserted(create.insertedQuestions,
                                create.parsedQuiz.questions[i].order_index)
           IN  IF ok
               THEN /\ questionsTable' =
                          [questionsTable EXCEPT ![insertedQuestion.id].image_url =
                              Some(publicUrlOf(fileNameOf(create.quizId, i - 1)))]
                    /\ create' = [create EXCEPT !.tasks[i] = "done"]
               ELSE /\ create' = [create EXCEPT !.tasks[i] = "done", !.failed = @ \cup {i}]
                    /\ UNCHANGED questionsTable
    /\ UNCHANGED <<op, args, ret, quizzesTable, storage, dummy2, quizTaking>>

\* Promise.allSettled has settled: the call returns the id of the quiz.
ReturnQuizId ==
    /\ create.pc = "images"
    /\ \A i \in DOMAIN create.tasks : create.tasks[i] = "done"
    /\ create' = [create EXCEPT !.pc = "returned"]
    /\ ret' = createOutcome(create')
    /\ UNCHANGED <<op, args, quizzesTable, questionsTable, storage, dummy2, quizTaking>>

NextCreate ==
    \/ CallCreateQuizFromParsedData
    \/ InsertQuiz
    \/ InsertQuestions
    \/ UploadImage
    \/ PatchImage
    \/ ReturnQuizId
SpecCreate == Init /\ [][NextCreate]_vars

\* An import: the document is parsed, or a parsed quiz is written.
NextImport == CallParseQuizFromPDF \/ NextCreate
SpecImport == Init /\ [][NextImport]_vars

\* C18: without a usable question there is never a quiz: parseQuizFromPDF
\* returns no quiz with an empty question list, and once
\* createQuizFromParsedData has ended for an empty question list the
\* store holds no quiz header row.
C18_NoQuizWithoutQuestions ==
    /\ (op = "parseQuizFromPDF" /\ ~ret.threw) => Len(ret.quiz.questions) > 0
    /\ (/\ op = "createQuizFromParsedData"
        /\ create.pc \in {"returned", "threw"}
        /\ args.parsedQuiz.questions = <<>>) => quizzesTable = {}

\* The stored row of the i-th question of the quiz being written.
RowOfQuestion(i) == questionsTable[create.insertedQuestions[i].id]

\* C20: once the question rows are inserted, the failure of one question's
\* image upload or image_url patch deletes no row and does not make the
\* call fail; the call returns the quiz id, the other questions' uploads
\* and patches are done, and the question of the failure is stored with
\* image_url null.
C20_ImageFailureIsolated ==
    (op = "createQuizFromParsedData" /\ create.insertedQuestions # <<>>) =>
        /\ create.pc # "threw"
        /\ \E quiz \in quizzesTable : quiz.id = create.quizId
        /\ \A i \in DOMAIN create.insertedQuestions :
               /\ create.insertedQuestions[i].id \in DOMAIN questionsTable
               /\ RowOfQuestion(i).quiz_id = create.quizId
        /\ (create.pc = "returned" /\ create.failed # {}) =>
               /\ ret = [threw |-> FALSE, error |-> "", value |-> create.quizId]
               /\ \A i \in DOMAIN create.tasks :
                      IF i \in create.failed
                      THEN RowOfQuestion(i).image_url = Null
                      ELSE create.parsedQuiz.questions[i].has_image =>
                               /\ fileNameOf(create.quizId, i - 1) \in storage
                               /\ RowOfQuestion(i).image_url =
                                      Some(publicUrlOf(fileNameOf(create.quizId, i - 1)))

-----------------------------------------------------------------------------
(* AutoCreateQuizService.createDummy2Quiz: the document is parsed and the
   quiz written, each raced against a timer of two minutes. *)

Dummy2Title == "Dummy-2 (Dallas ISD)"

\* The documents that /Dummy-2.pdf may be, each read by either version of
\* parseQuizFromPDF, with the title the call passes.
Dummy2Documents ==
    {pagesOf(ds) : ds \in {x \in SeqsUpTo(QuestionInputs, MaxQuestions - 1) :
                              x # <<>> => x[1].newPage}}

withTitle(result, title) ==
    IF result.threw THEN result ELSE [result EXCEPT !.quiz.title = title]

Dummy2ParseResults ==
    {withTitle(parseQuizFromPDF(pages), Dummy2Title) : pages \in Dummy2Documents}
    \cup {withTitle(parseQuizFromPDF_PageImages(<<CoverPage>> \o pages), Dummy2Title) :
             pages \in Dummy2Documents}

\* The error of a variant in which a timer rejects like an empty parse.
raceTimeoutError_AsEmptyResult(awaited) ==
    "Failed to parse PDF: No questions detected in the PDF."

\* The message of the error with which the timer of a race rejects.
raceTimeoutError(awaited) ==
    IF awaited = "parseQuizFromPDF" THEN "PDF parsing timed out after 2 minutes."
    ELSE "Quiz creation timed out after 2 minutes."

\* error instanceof Error ? error.message : 'Unknown error occurred'; the
\* errors of the database client are no instances of Error.
errorMessageOf(error) ==
    IF error \in {"quizError", "questionsError"} THEN "Unknown error occurred" ELSE error

\* The catch block: the toast shown and null returned.
dummy2Failed(d, race, error) ==
    [d EXCEPT !.pc = "failed",
              !.race = race,
              !.errorMessage = errorMessageOf(error),
              !.toast = <<"Failed to create Dummy-2 quiz: ", errorMessageOf(error)>>,
              !.result = Null]

\* The value createDummy2Quiz hands to its caller, once it has one.
dummy2Outcome(d) ==
    IF d.pc \in {"returned", "failed"} THEN [value |-> d.result, toast |-> d.toast] ELSE ret

\* The call starts: a Dummy-2 quiz with questions is returned as it is,
\* one without questions is deleted, and the parse is started.
CallCreateDummy2Quiz ==
    /\ op = "none"
    /\ create.pc = "idle"
    /\ dummy2.pc = "idle"
    /\ \E parsed \in Dummy2ParseResults :
        LET existing == {q \in quizzesTable : q.title = Dummy2Title}
            existingQuiz == CHOOSE q \in existing : TRUE
            hasQuestions ==
                \E i \in DOMAIN questionsTable : questionsTable[i].quiz_id = existingQuiz.id
            started == [pc |-> "parsing", parse |-> parsed, race |-> "pending",
                        warnings |-> <<>>, errorMessage |-> "", toast |-> <<>>,
                        result |-> Null]
        IN  /\ op' = "createDummy2Quiz"
            /\ args' = <<>>
            /\ IF existing # {} /\ hasQuestions
               THEN /\ dummy2' = [started EXCEPT !.pc = "returned",
                                                 !.toast = <<"Dummy-2 quiz already exists!">>,
                                                 !.result = Some(existingQuiz.id)]
                    /\ UNCHANGED quizzesTable
               ELSE /\ dummy2' = started
                    /\ quizzesTable' = quizzesTable \ existing
            /\ ret' = dummy2Outcome(dummy2')
    /\ UNCHANGED <<questionsTable, storage, create, quizTaking>>

\* The parse settles before its timer: its error is caught, or the quiz
\* is handed to createQuizFromParsedData.
Dummy2ParseSettles ==
    /\ dummy2.pc = "parsing"
    /\ IF dummy2.parse.threw
       THEN /\ dummy2' = dummy2Failed([dummy2 EXCEPT !.warnings = dummy2.parse.warnings],
                                      "operation", dummy2.parse.error)
            /\ UNCHANGED create
       ELSE /\ dummy2' = [dummy2 EXCEPT !.pc = "creating",
                                        !.warnings = dummy2.parse.warnings]
            /\ create' = startCreate(dummy2.parse.quiz)
    /\ ret' = dummy2Outcome(dummy2')
    /\ UNCHANGED <<op, args, quizzesTable, questionsTable, storage, quizTaking>>

\* The timer of the first race fires while the parse is pending.
Dummy2ParseTimesOut ==
    /\ dummy2.pc = "parsing"
    /\ dummy2' = dummy2Failed(dummy2, "timer", raceTimeoutError("parseQuizFromPDF"))
    /\ ret' = dummy2Outcome(dummy2')
    /\ UNCHANGED <<op, args, quizzesTable, questionsTable, storage, create, quizTaking>>

\* createQuizFromParsedData settles before its timer.
Dummy2CreateSettles ==
    /\ dummy2.pc = "creating"
    /\ create.pc \in {"returned", "threw"}
    /\ IF create.pc = "threw"
       THEN dummy2' = dummy2Failed(dummy2, "operation", create.error)
       ELSE dummy2' = [dummy2 EXCEPT !.pc = "returned",
                                     !.race = "operation",
                                     !.toast = <<"Created Dummy-2 quiz with questions!">>,
                                     !.result = Some(create.quizId)]
    /\ ret' = dummy2Outcome(dummy2')
    /\ UNCHANGED <<op, args, quizzesTable, questionsTable, storage, create, quizTaking>>

\* The timer of the second race fires while createQuizFromParsedData is
\* at work, which goes on.
Dummy2CreateTimesOut ==
    /\ dummy2.pc = "creating"
    /\ create.pc \notin {"returned", "threw"}
    /\ dummy2' = dummy2Failed(dummy2, "timer", raceTimeoutError("createQuizFromParsedData"))
    /\ ret' = dummy2Outcome(dummy2')
    /\ UNCHANGED <<op, args, quizzesTable, questionsTable, storage, create, quizTaking>>

NextDummy2 ==
    \/ CallCreateDummy2Quiz
    \/ Dummy2ParseSettles
    \/ Dummy2ParseTimesOut
    \/ Dummy2CreateSettles
    \/ Dummy2CreateTimesOut
    \/ InsertQuiz
    \/ InsertQuestions
    \/ UploadImage
    \/ PatchImage
    \/ ReturnQuizId
SpecDummy2 == Init /\ [][NextDummy2]_vars

\* The messages by which the failures are told apart.
TimeoutMessages ==
    {"PDF parsing timed out after 2 minutes.", "Quiz creation timed out after 2 minutes."}
EmptyResultMessages ==
    {"Failed to parse PDF: No questions detected in the PDF.", "No questions were created"}

\* C19: when the parse or the creation exceeds its two minutes, the
\* failure createDummy2Quiz catches and shows is a timeout, told apart
\* from the failure of an empty result; a failure that is no timeout is
\* never shown as one, and a question skipped as malformed is a warning
\* and no failure.
C19_TimeoutDistinct ==
    (op = "createDummy2Quiz" /\ dummy2.pc = "failed") =>
        /\ dummy2.race = "timer" =>
               /\ dummy2.errorMessage \in TimeoutMessages
               /\ dummy2.errorMessage \notin EmptyResultMessages
               /\ dummy2.toast = <<"Failed to create Dummy-2 quiz: ", dummy2.errorMessage>>
        /\ dummy2.race = "operation" =>
               /\ dummy2.errorMessage \notin TimeoutMessages
               /\ dummy2.toast = <<"Failed to create Dummy-2 quiz: ", dummy2.errorMessage>>
        /\ \A k \in DOMAIN dummy2.warnings :
               dummy2.warnings[k].message \notin TimeoutMessages

\* The creation timed out while createQuizFromParsedData was at work, and
\* the caller got null with the toast of the timeout.
C19_Witness ==
    /\ op = "createDummy2Quiz"
    /\ dummy2.pc = "failed"
    /\ dummy2.race = "timer"
    /\ dummy2.errorMessage = "Quiz creation timed out after 2 minutes."
    /\ ret = [value |-> Null,
              toast |-> <<"Failed to create Dummy-2 quiz: ",
                          "Quiz creation timed out after 2 minutes.">>]

\* An image upload or image_url patch of the call has been issued.
ImageWorkIssued ==
    \/ storage # {}
    \/ create.failed # {}
    \/ \E i \in DOMAIN questionsTable : questionsTable[i].image_url # Null
    \/ \E i \in DOMAIN create.tasks :
           /\ create.parsedQuiz.questions[i].has_image
           /\ create.tasks[i] # "upload"

\* C21: in createQuizFromParsedData the quiz header row is in the store
\* before any question row, no image upload or patch is issued before
\* the question rows are inserted, and no question row is inserted when
\* the header insert fails.
C21_HeaderThenQuestionsThenImages ==
    (op = "createQuizFromParsedData" /\ create.pc # "idle") =>
        /\ \A i \in DOMAIN questionsTable :
               \E quiz \in quizzesTable : quiz.id = questionsTable[i].quiz_id
        /\ ImageWorkIssued =>
               /\ create.insertedQuestions # <<>>
               /\ \A i \in DOMAIN create.insertedQuestions :
                      create.insertedQuestions[i].id \in DOMAIN questionsTable
        /\ create.error = "quizError" => questionsTable = <<>> /\ storage = {}

\* The call has returned with rows inserted and an image uploaded and
\* patched.
C21_Witness ==
    /\ op = "createQuizFromParsedData"
    /\ create.pc = "returned"
    /\ storage # {}
    /\ \E i \in DOMAIN questionsTable : questionsTable[i].image_url # Null
    /\ \E quiz \in quizzesTable : quiz.id = create.quizId

\* The pages of a document that carry a question number.
PagesWithOrdinal(pages) ==
    {n \in DOMAIN pages : questionStartIndex(pageLines(joinItems(pages[n]))) # 0}

\* C22: the page-image parser never raises and returns one record for
\* every page that carries a question number, the first page included.
C22_PageImagesNeverRaise ==
    (op = "parseQuizFromPDF_PageImages" /\ PagesWithOrdinal(args.pages) # {}) =>
        /\ ~ret.threw
        /\ Len(ret.quiz.questions) = Cardinality(PagesWithOrdinal(args.pages))

\* The submitted answer and every expected keyword are made of letters.
SubmittedLettersOnly ==
    /\ args.answer # <<>>
    /\ \A i \in DOMAIN args.answer : args.answer[i] \in LowerChars
    /\ \A j \in DOMAIN args.question.expected_keywords.value :
          \A i \in DOMAIN args.question.expected_keywords.value[j] :
              args.question.expected_keywords.value[j][i] \in LowerChars

\* C23: at submission a short-answer question with expected keywords and
\* no keyword-weight mapping earns what gradeShortAnswer gives with every
\* weight defaulting to 1: the share of matched keywords of its points.
C23_MissingWeightsDefaultToOne ==
    (/\ op = "handleSubmitQuiz"
     /\ args.question.question_type = "short-answer"
     /\ ~args.question.expected_keywords.isNull
     /\ args.question.keyword_weightage.isNull
     /\ SubmittedLettersOnly) =>
        ret.pointsEarned =
            gradeShortAnswer(args.answer, args.question.expected_keywords.value,
                             <<>>, args.question.points).score100

\* C24: for a rubric of keywords of letters, a response that normalizes to
\* the empty string matches no keyword and is graded score 0, percentage 0.
C24_BlankResponseGradesZero ==
    (/\ Graded
     /\ args.studentAnswer # <<>>
     /\ normalizeText(args.studentAnswer) = <<>>
     /\ args.expectedKeywords # <<>>
     /\ \A j \in DOMAIN args.expectedKeywords :
            /\ args.expectedKeywords[j] # <<>>
            /\ \A i \in DOMAIN args.expectedKeywords[j] :
                   args.expectedKeywords[j][i] \in LowerChars
     /\ args.totalPoints > 0
     /\ \A k \in DOMAIN args.keywordWeightage : args.keywordWeightage[k] >= 0) =>
        /\ ret.score100 = 0
        /\ ret.percentage[1] = 0
        /\ \A m \in DOMAIN ret.matchedKeywords : ~ret.matchedKeywords[m].found

\* C25: once createQuizFromParsedData has thrown because the insert of the
\* question rows failed or returned no row, the store holds no quiz header
\* row written by that call.
C25_ThrowLeavesNoHeader ==
    (/\ op = "createQuizFromParsedData"
     /\ create.pc = "threw"
     /\ create.error \in {"questionsError", "No questions were created"}) =>
        \A quiz \in quizzesTable : quiz.id # create.quizId

\* C26: once createDummy2Quiz has reported failure because a timer won its
\* race, no step writes a quiz row or a question row.
C26_NoWriteAfterTimeout ==
    [][(dummy2.pc = "failed" /\ dummy2.race = "timer") =>
           (quizzesTable' = quizzesTable /\ questionsTable' = questionsTable)]_vars

\* C27: when createQuizFromParsedData has returned and every upload and
\* patch has succeeded, the row of each image question holds the URL of
\* that question's own image, and the row of a question without image
\* holds none.
C27_EachRowItsOwnImage ==
    (/\ op = "createQuizFromParsedData"
     /\ create.pc = "returned"
     /\ create.failed = {}) =>
        \A i \in DOMAIN create.parsedQuiz.questions :
            LET question == create.parsedQuiz.questions[i]
            IN  RowOfQuestion(i).image_url =
                    IF question.has_image /\ ~question.image_data.isNull
                    THEN Some(publicUrlOf(fileNameOf(create.quizId, i - 1)))
                    ELSE Null

-----------------------------------------------------------------------------
(* The component QuizTaking: the countdown, the learner's answers and the  *)
(* submission of the attempt.  The quiz and the attempt have been fetched; *)
(* saved progress, flags and the Safe Exam Browser check are not carried,  *)
(* nor are submitted_at and time_spent of the attempt.                     *)

MaxSubmissions == 2

DurationInputs == {1}

TakingAnswerInputs == {<<"a">>}

choiceQuestion(points, correct) ==
    [question_type |-> "multiple-choice", correct_answer |-> Some(correct),
     points |-> points, expected_keywords |-> Null, keyword_weightage |-> Null]

\* The rows the select of the questions returns; a question's id is its
\* place in the quiz.
TakingQuestionInputs == {choiceQuestion(1, <<"a">>), choiceQuestion(2, <<"b">>)}

TakingQuizInputs ==
    {questions \in SeqsUpTo(TakingQuestionInputs, MaxQuestions) : questions # <<>>}

RECURSIVE sumOver(_, _)
sumOver(f, keys) ==
    IF keys = {} THEN 0
    ELSE LET k == CHOOSE x \in keys : TRUE
         IN  f[k] + sumOver(f, keys \ {k})

\* The rows of answerData with totalScore (in hundredths of a point) and
\* maxScore: one row per entry of answers; only an entry whose question
\* is found adds to the two sums.
gradeAnswers(questionsWithAnswers, answers, attemptId) ==
    LET found(questionId) == questionId \in DOMAIN questionsWithAnswers
        graded == [questionId \in DOMAIN answers |->
                      IF found(questionId)
                      THEN gradeAnswer(questionsWithAnswers[questionId], answers[questionId])
                      ELSE [isCorrect |-> FALSE, pointsEarned |-> 0,
                            autoGradedScore |-> Null, requiresManualReview |-> FALSE]]
        pointsOf == [questionId \in DOMAIN answers |->
                        IF found(questionId) THEN questionsWithAnswers[questionId].points
                        ELSE 0]
    IN  [answerData |->
            [questionId \in DOMAIN answers |->
                [attempt_id |-> attemptId,
                 question_id |-> questionId,
                 answer_text |-> answers[questionId],
                 is_correct |-> graded[questionId].isCorrect,
                 points_earned |-> graded[questionId].pointsEarned,
                 auto_graded_score |-> graded[questionId].autoGradedScore,
                 requires_manual_review |-> graded[questionId].requiresManualReview]],
         totalScore |-> sumOver([questionId \in DOMAIN answers |->
                                    graded[questionId].pointsEarned], DOMAIN answers),
         maxScore |-> sumOver(pointsOf, DOMAIN answers)]

\* handleAnswerChange: the entry of the question is set, the others kept.
withAnswer(answers, questionId, answer) ==
    [q \in DOMAIN answers \cup {questionId} |->
        IF q = questionId THEN answer ELSE answers[q]]

\* handleSubmitQuiz up to its first await, called with the answers its
\* closure holds: a preview leaves the page, a call without attempt
\* returns, any other call sets isSubmitting and fetches the questions.
handleSubmitQuiz(t, by, answers) ==
    IF t.isPreview THEN [t EXCEPT !.pc = "left"]
    ELSE IF t.attemptId.isNull THEN t
    ELSE [t EXCEPT !.isSubmitting = TRUE,
                   !.calls = Append(@, [by |-> by, answers |-> answers, pc |-> "fetch",
                                        answerData |-> <<>>, totalScore |-> 0,
                                        maxScore |-> 0])]

\* The catch and finally of a call that failed.
submitFailed(t, i) == [t EXCEPT !.calls[i].pc = "failed", !.isSubmitting = FALSE]

\* fetchQuizData has settled and the page is shown: the countdown is set
\* to the quiz's duration and the timer effect starts the interval, whose
\* callback holds handleSubmitQuiz of that render.
MountQuizTaking ==
    /\ op = "none"
    /\ taking.pc = "unmounted"
    /\ \E questions \in TakingQuizInputs, duration \in DurationInputs, isPreview \in BOOLEAN :
        /\ op' = "QuizTaking"
        /\ args' = [questions |-> questions, duration |-> duration, isPreview |-> isPreview]
        /\ taking' = [pc |-> "active",
                      isPreview |-> isPreview,
                      questions |-> questions,
                      attemptId |-> IF isPreview THEN Null ELSE Some(1),
                      answers |-> <<>>,
                      timeRemaining |-> duration * 60,
                      isSubmitting |-> FALSE,
                      timerAnswers |-> <<>>,
                      calls |-> <<>>]
    /\ UNCHANGED <<ret, quizzesTable, questionsTable, storage, create, dummy2,
                   quizAttempts, attemptAnswers>>

\* The learner answers a question.
HandleAnswerChange ==
    /\ taking.pc = "active"
    /\ \E questionId \in DOMAIN taking.questions, answer \in TakingAnswerInputs :
        taking' = [taking EXCEPT !.answers = withAnswer(@, questionId, answer)]
    /\ UNCHANGED <<op, args, ret, quizzesTable, questionsTable, storage, create, dummy2,
                   quizAttempts, attemptAnswers>>

\* One tick of the interval: the countdown goes down by one, or, at one
\* second or less, is set to 0 and handleSubmitQuiz of the render in
\* which the interval was started is called.
TimerTick ==
    /\ taking.pc = "active"
    /\ IF taking.timeRemaining <= 1
       THEN /\ Len(taking.calls) < MaxSubmissions
            /\ taking' = [handleSubmitQuiz(taking, "timer", taking.timerAnswers)
                              EXCEPT !.timeRemaining = 0]
       ELSE taking' = [taking EXCEPT !.timeRemaining = @ - 1]
    /\ UNCHANGED <<op, args, ret, quizzesTable, questionsTable, storage, create, dummy2,
                   quizAttempts, attemptAnswers>>

\* A click on Submit Quiz, which is disabled while isSubmitting is set:
\* handleSubmitQuiz of the current render is called.
ClickSubmitQuiz ==
    /\ taking.pc = "active"
    /\ ~taking.isSubmitting
    /\ Len(taking.calls) < MaxSubmissions
    /\ taking' = handleSubmitQuiz(taking, "button", taking.answers)
    /\ UNCHANGED <<op, args, ret, quizzesTable, questionsTable, storage, create, dummy2,
                   quizAttempts, attemptAnswers>>

\* The select of the questions of a call settles: with an error the call
\* fails; otherwise the answers the call holds are graded, and the rows
\* are upserted if there is any.
SubmitQuestionsFetched ==
    /\ taking.pc # "unmounted"
    /\ \E i \in DOMAIN taking.calls, ok \in BOOLEAN :
        /\ taking.calls[i].pc = "fetch"
        /\ IF ~ok THEN taking' = submitFailed(taking, i)
           ELSE LET graded == gradeAnswers(taking.questions, taking.calls[i].answers,
                                           taking.attemptId.value)
                IN  taking' =
                        [taking EXCEPT
                            !.calls[i].answerData = graded.answerData,
                            !.calls[i].totalScore = graded.totalScore,
                            !.calls[i].maxScore = graded.maxScore,
                            !.calls[i].pc = IF DOMAIN graded.answerData # {}
                                            THEN "upsert" ELSE "update"]
    /\ UNCHANGED <<op, args, ret, quizzesTable, questionsTable, storage, create, dummy2,
                   quizAttempts, attemptAnswers>>

\* The upsert of the rows of a call settles.
SubmitAnswersUpserted ==
    /\ taking.pc # "unmounted"
    /\ \E i \in DOMAIN taking.calls, ok \in BOOLEAN :
        /\ taking.calls[i].pc = "upsert"
        /\ IF ok
           THEN /\ attemptAnswers' = Append(attemptAnswers, taking.calls[i].answerData)
                /\ taking' = [taking EXCEPT !.calls[i].pc = "update"]
           ELSE /\ taking' = submitFailed(taking, i)
                /\ UNCHANGED attemptAnswers
    /\ UNCHANGED <<op, args, ret, quizzesTable, questionsTable, storage, create, dummy2,
                   quizAttempts>>

\* The update of the attempt of a call settles: the attempt is stored as
\* graded with score and max_score and the page is left, which clears
\* the interval; with an error the call fails.
SubmitAttemptUpdated ==
    /\ taking.pc # "unmounted"
    /\ \E i \in DOMAIN taking.calls, ok \in BOOLEAN :
        /\ taking.calls[i].pc = "update"
        /\ IF ok
           THEN /\ quizAttempts' =
                      Append(quizAttempts,
                             [status |-> "graded",
                              score |-> taking.calls[i].totalScore,
                              max_score |-> taking.calls[i].maxScore])
                /\ taking' = [taking EXCEPT !.calls[i].pc = "done",
                                            !.pc = "left",
                                            !.isSubmitting = FALSE]
           ELSE /\ taking' = submitFailed(taking, i)
                /\ UNCHANGED quizAttempts
    /\ UNCHANGED <<op, args, ret, quizzesTable, questionsTable, storage, create, dummy2,
                   attemptAnswers>>

NextTaking ==
    \/ MountQuizTaking
    \/ HandleAnswerChange
    \/ TimerTick
    \/ ClickSubmitQuiz
    \/ SubmitQuestionsFetched
    \/ SubmitAnswersUpserted
    \/ SubmitAttemptUpdated
SpecTaking == Init /\ [][NextTaking]_vars

\* The points of all questions of the quiz being taken.
QuizTotalPoints ==
    sumOver([i \in DOMAIN taking.questions |-> taking.questions[i].points],
            DOMAIN taking.questions)

\* C28: the attempt is stored with max_score equal to the sum of the points
\* of all questions of the quiz, answered or not, and with a score (held
\* in hundredths of a point) that does not exceed max_score.
C28_MaxScoreIsQuizTotal ==
    \A i \in DOMAIN quizAttempts :
        /\ quizAttempts[i].max_score = QuizTotalPoints
        /\ quizAttempts[i].score <= 100 * quizAttempts[i].max_score

\* The calls of handleSubmitQuiz the timer has made.
TimerCalls == {i \in DOMAIN taking.calls : taking.calls[i].by = "timer"}

\* C29: the timer calls handleSubmitQuiz at most once, and the attempt is
\* stored as graded at most once.
C29_SubmittedOnce ==
    taking.pc # "unmounted" =>
        /\ Cardinality(TimerCalls) <= 1
        /\ Len(quizAttempts) <= 1

\* C30: the call of handleSubmitQuiz the timer makes when the countdown
\* expires grades the answers the learner has entered by then.
C30_ExpiryGradesCurrentAnswers ==
    [][taking.pc = "active" =>
           \A i \in DOMAIN taking'.calls \ DOMAIN taking.calls :
               taking'.calls[i].by = "timer" =>
                   taking'.calls[i].answers = taking.answers]_vars

-----------------------------------------------------------------------------
(* Every call and every step of the calls in progress. *)

Next ==
    \/ CallNormalizeText
    \/ CallContainsKeyword
    \/ CallGradeShortAnswer
    \/ CallRequiresManualReview
    \/ SubmitShortAnswer
    \/ CallParseQuizFromPDF
    \/ CallParseQuizFromPDF_PageImages
    \/ NextCreate
    \/ NextDummy2
    \/ NextTaking

Spec == Init /\ [][Next]_vars

=============================================================================
